---- MODULE Spec2Model ----
(***************************************************************************)
(* verifyAuthenticationResponse() of @simplewebauthn/server                *)
(* (packages/server/src/authentication/verifyAuthenticationResponse.ts),   *)
(* together with the caller that owns the credential record.               *)
(*                                                                         *)
(* A call is a process that walks through the function's checks in source  *)
(* order.  Each field of the call's arguments is an input; a field is      *)
(* chosen by the step that first reads it (the arguments are immutable, so *)
(* this is the same as choosing them all at the call), except for          *)
(* expectedChallenge, the credential and the signature of the response,    *)
(* which are fixed when the call starts.                                   *)
(*                                                                         *)
(* JavaScript values of several types (string | string[] | undefined) are  *)
(* records with a "kind" field and one field per alternative.              *)
(***************************************************************************)
EXTENDS Integers, Sequences, FiniteSets, TLC

VARIABLES
    pc,          \* pc[c]: position of call c in verifyAuthenticationResponse
    opts,        \* opts[c]: the fields of `options` (and `options.response`) read so far
    clientData,  \* clientData[c]: result of decodeClientDataJSON (line 88)
    authData,    \* authData[c]: result of parseAuthenticatorData (line 171)
    matchedRPID, \* matchedRPID[c]: result of matchExpectedRPID (line 182)
    log,         \* log[c]: what the call has done so far (predicate and verifier invocations, steps)
    outcome,     \* outcome[c]: how the promise settled: none, error (rejected) or result (fulfilled)
    cred,        \* cred[c]: the caller-owned WebAuthnCredential object that options.credential
                 \*          of call c refers to, as it is now
    db,          \* the counter the caller has persisted for the credential
    accepted     \* caller's history: nonzero counters of the authentications it accepted

vars == <<pc, opts, clientData, authData, matchedRPID, log, outcome, cred, db, accepted>>

(***************************************************************************)
(* Bounds                                                                  *)
(***************************************************************************)
MaxCounter == 2

Counters == 0..MaxCounter

(***************************************************************************)
(* Input domains                                                           *)
(***************************************************************************)
Ids == {"", "a"}
RawIds == {"a", "b"}
CredentialTypes == {"public-key", "other"}

Types == {"webauthn.get", "webauthn.create"}
Challenges == {"c1", "c2"}
Origins == {"https://example.com", "https://evil.example"}
RPIDs == {"example.com", "evil.example"}

\* A string | string[] | undefined option.
Undefined == [kind |-> "undefined", str |-> "", arr |-> <<>>]
Str(s) == [kind |-> "string", str |-> s, arr |-> <<>>]
Arr(a) == [kind |-> "array", str |-> "", arr |-> a]
Unread == [kind |-> "unread", str |-> "", arr |-> <<>>]

ExpectedTypes ==
    {Undefined, Str(""), Str("webauthn.get"), Str("webauthn.create"),
     Arr(<<"webauthn.create", "webauthn.get">>), Arr(<<"webauthn.create">>)}

\* expectedChallenge: string | ((challenge) => boolean | Promise<boolean>)
ChallengeFn == [kind |-> "function", str |-> "", arr |-> <<>>]
ExpectedChallenges == {Str("c1"), ChallengeFn}

ExpectedOrigins ==
    {Str("https://example.com"),
     Arr(<<"https://other.example", "https://example.com">>)}

ExpectedRPIDs == {Str("example.com"), Arr(<<"other.example", "example.com">>)}

\* clientDataJSON.tokenBinding: absent, a non-object, or an object with a status.
TokenBindings ==
    {[kind |-> "undefined", status |-> ""],
     [kind |-> "string", status |-> ""],
     [kind |-> "object", status |-> "bogus"],
     [kind |-> "object", status |-> "supported"]}

\* response.response.userHandle: absent, a string, or some other truthy value.
UserHandles == {"undefined", "string", "number"}

\* advancedFIDOConfig?: { userVerification?: UserVerificationRequirement }
AdvancedFIDOConfigs ==
    [defined : {TRUE}, userVerification : {"undefined", "required", "preferred", "discouraged"}]
    \cup {[defined |-> FALSE, userVerification |-> "undefined"]}

AuthenticatorFlags ==
    [up : BOOLEAN, uv : BOOLEAN, be : {FALSE}, bs : {FALSE}]

\* requireUserVerification?: boolean
RequireUserVerifications == {"undefined", "false"}

\* response.response.signature against credential.publicKey: it verifies, it
\* does not verify, or the material is structurally invalid.
Signatures == {"valid", "invalid", "malformed"}

CredentialID == "a"
CredentialPublicKey == "pk"

(***************************************************************************)
(* Values a call starts from                                               *)
(***************************************************************************)
NoError == ""
NoRPID == ""

\* The messages of the errors thrown before the challenge check (lines 65-107)
EarlyErrors ==
    {"Missing credential ID", "Credential ID was not base64url-encoded",
     "Unexpected credential type", "Credential response clientDataJSON was not a string",
     "Malformed clientDataJSON",
     "Unexpected authentication response type, expected one of",
     "Unexpected authentication response type, expected",
     "Unexpected authentication response type"}

TypeErrors ==
    {"Unexpected authentication response type, expected one of",
     "Unexpected authentication response type, expected",
     "Unexpected authentication response type"}

ChallengeErrors ==
    {"Unexpected authentication response challenge", "Custom challenge verifier returned false"}

OriginErrors ==
    {"Unexpected authentication response origin, expected one of",
     "Unexpected authentication response origin, expected"}

FlagErrors ==
    {"User not present during authentication",
     "User verification required, but user could not be verified"}

CounterErrors == {"Response counter value was lower than expected"}

SignatureErrors == {"Invalid signature encoding"}

NoOpts ==
    [id |-> "", rawId |-> "", credentialType |-> "", clientDataJSONIsString |-> FALSE,
     expectedType |-> Unread, expectedChallenge |-> Unread, expectedOrigin |-> Unread,
     authenticatorDataIsBase64URL |-> FALSE, signatureIsBase64URL |-> FALSE,
     userHandle |-> "unread", expectedRPID |-> Unread,
     requireUserVerification |-> "unread",
     advancedFIDOConfig |-> [defined |-> FALSE, userVerification |-> "unread"],
     signature |-> "unread"]

NoClientData ==
    [ok |-> FALSE, type |-> "", challenge |-> "", origin |-> "",
     tokenBinding |-> [kind |-> "undefined", status |-> ""]]

NoFlags == [up |-> FALSE, uv |-> FALSE, be |-> FALSE, bs |-> FALSE]

NoAuthData == [ok |-> FALSE, rpIdHash |-> <<"sha256", "">>, flags |-> NoFlags, counter |-> 0]

NoLog ==
    [predicateCalls |-> <<>>, predicateResult |-> "none", verifySignatureCalls |-> 0,
     steps |-> {}, overlapped |-> FALSE, givenCounter |-> 0, callerStored |-> FALSE]

NoInfo ==
    [credentialID |-> "", newCounter |-> 0, userVerified |-> FALSE,
     credentialDeviceType |-> "", credentialBackedUp |-> FALSE, origin |-> "", rpID |-> ""]

NoOutcome == [kind |-> "none", error |-> NoError, verified |-> FALSE, authenticationInfo |-> NoInfo]

NoCredential == [id |-> "", publicKey |-> "", counter |-> 0, shared |-> FALSE]

Rejected(err) == [kind |-> "error", error |-> err, verified |-> FALSE, authenticationInfo |-> NoInfo]

\* lines 242-260: the promise fulfils with toReturn
Fulfilled(verified, info) ==
    [kind |-> "result", error |-> NoError, verified |-> verified, authenticationInfo |-> info]

(***************************************************************************)
(* The checks of verifyAuthenticationResponse, as functions of what they   *)
(* read.  Each yields the message of the Error it throws, or NoError.      *)
(***************************************************************************)
Includes(arr, x) == \E i \in DOMAIN arr : arr[i] = x

\* lines 63-86
ShapeError(id, rawId, credentialType, clientDataJSONIsString) ==
    IF id = "" THEN "Missing credential ID"
    ELSE IF id # rawId THEN "Credential ID was not base64url-encoded"
    ELSE IF credentialType # "public-key" THEN "Unexpected credential type"
    ELSE IF ~clientDataJSONIsString THEN "Credential response clientDataJSON was not a string"
    ELSE NoError

\* A type check that forgets the array form of expectedType.
TypeError_NoArray(type, expectedType) ==
    IF expectedType.kind = "string" /\ expectedType.str # ""
    THEN IF type # expectedType.str
         THEN "Unexpected authentication response type, expected"
         ELSE NoError
    ELSE IF type # "webauthn.get"
    THEN "Unexpected authentication response type"
    ELSE NoError

\* lines 92-108
TypeError(type, expectedType) ==
    IF expectedType.kind = "array"
    THEN IF ~Includes(expectedType.arr, type)
         THEN "Unexpected authentication response type, expected one of"
         ELSE NoError
    ELSE IF expectedType.kind = "string" /\ expectedType.str # ""
    THEN IF type # expectedType.str
         THEN "Unexpected authentication response type, expected"
         ELSE NoError
    ELSE IF type # "webauthn.get"
    THEN "Unexpected authentication response type"
    ELSE NoError

\* lines 117-121: expectedChallenge is a string
LiteralChallengeError(challenge, expectedChallenge) ==
    IF challenge # expectedChallenge.str
    THEN "Unexpected authentication response challenge"
    ELSE NoError

\* lines 112-116: the awaited value of expectedChallenge(challenge)
PredicateChallengeError(result) ==
    IF result = "reject" THEN "expectedChallenge rejected"
    ELSE IF result # "true" THEN "Custom challenge verifier returned false"
    ELSE NoError

\* An origin check that only handles a list of expected origins.
OriginError_ArrayOnly(origin, expectedOrigin) ==
    IF expectedOrigin.kind = "array" /\ ~Includes(expectedOrigin.arr, origin)
    THEN "Unexpected authentication response origin, expected one of"
    ELSE NoError

\* lines 123-137
OriginError(origin, expectedOrigin) ==
    IF expectedOrigin.kind = "array"
    THEN IF ~Includes(expectedOrigin.arr, origin)
         THEN "Unexpected authentication response origin, expected one of"
         ELSE NoError
    ELSE IF origin # expectedOrigin.str
         THEN "Unexpected authentication response origin, expected"
         ELSE NoError

\* lines 139-166
EncodingError(authenticatorDataIsBase64URL, signatureIsBase64URL, userHandle, tokenBinding) ==
    IF ~authenticatorDataIsBase64URL
    THEN "Credential response authenticatorData was not a base64url string"
    ELSE IF ~signatureIsBase64URL
    THEN "Credential response signature was not a base64url string"
    ELSE IF userHandle \notin {"undefined", "string"}
    THEN "Credential response userHandle was not a string"
    ELSE IF tokenBinding.kind = "undefined" THEN NoError
    ELSE IF tokenBinding.kind # "object" THEN "ClientDataJSON tokenBinding was not an object"
    ELSE IF tokenBinding.status \notin {"present", "supported", "notSupported"}
    THEN "Unexpected tokenBinding status"
    ELSE NoError

\* SHA-256 of an RP ID, kept symbolic
Hash(rpid) == <<"sha256", rpid>>

\* lines 175-180
ExpectedRPIDList(expectedRPID) ==
    IF expectedRPID.kind = "string" THEN <<expectedRPID.str>> ELSE expectedRPID.arr

\* helpers/matchExpectedRPID.ts: the first expected RP ID whose hash is rpIdHash
MatchExpectedRPID(rpIdHash, expectedRPIDs) ==
    LET hits == {i \in DOMAIN expectedRPIDs : Hash(expectedRPIDs[i]) = rpIdHash}
    IN  IF hits = {} THEN NoRPID
        ELSE expectedRPIDs[CHOOSE i \in hits : \A j \in hits : i <= j]

\* line 58: requireUserVerification = true
RequireUserVerification(option) == option # "false"

\* A flag check that applies the presence rule in both modes.
FlagError_Combined(flags, requireUserVerification, advancedFIDOConfig) ==
    IF ~flags.up
    THEN "User not present during authentication"
    ELSE IF advancedFIDOConfig.defined
    THEN IF advancedFIDOConfig.userVerification = "required" /\ ~flags.uv
         THEN "User verification required, but user could not be verified"
         ELSE NoError
    ELSE IF RequireUserVerification(requireUserVerification) /\ ~flags.uv
         THEN "User verification required, but user could not be verified"
         ELSE NoError

\* lines 184-218
FlagError(flags, requireUserVerification, advancedFIDOConfig) ==
    IF advancedFIDOConfig.defined
    THEN IF advancedFIDOConfig.userVerification = "required" /\ ~flags.uv
         THEN "User verification required, but user could not be verified"
         ELSE NoError
    ELSE IF ~flags.up
         THEN "User not present during authentication"
         ELSE IF RequireUserVerification(requireUserVerification) /\ ~flags.uv
         THEN "User verification required, but user could not be verified"
         ELSE NoError

\* A counter check without the exemption for two zero counters.
CounterError_NoZeroExemption(counter, storedCounter) ==
    IF counter <= storedCounter
    THEN "Response counter value was lower than expected"
    ELSE NoError

\* A counter check that lets an unchanged counter through.
CounterError_AllowEqual(counter, storedCounter) ==
    IF (counter > 0 \/ storedCounter > 0) /\ counter < storedCounter
    THEN "Response counter value was lower than expected"
    ELSE NoError

\* lines 227-238
CounterError(counter, storedCounter) ==
    IF (counter > 0 \/ storedCounter > 0) /\ counter <= storedCounter
    THEN "Response counter value was lower than expected"
    ELSE NoError

\* helpers/verifySignature.ts: true or false for well-formed material, an
\* error for structurally invalid key or signature material
VerifySignature(signature) ==
    IF signature = "malformed" THEN "throw"
    ELSE IF signature = "valid" THEN "true"
    ELSE "false"

\* helpers/parseBackupFlags.ts
ParseBackupFlags(flags) ==
    [credentialDeviceType |-> IF flags.be THEN "multiDevice" ELSE "singleDevice",
     credentialBackedUp |-> flags.bs]

\* A result that reports the stored counter instead of the observed one.
AuthenticationInfo_StoredCounter(credential, parsedAuthData, decodedClientData, rpID) ==
    [credentialID |-> credential.id,
     newCounter |-> credential.counter,
     userVerified |-> parsedAuthData.flags.uv,
     credentialDeviceType |-> IF parsedAuthData.flags.be THEN "multiDevice" ELSE "singleDevice",
     credentialBackedUp |-> parsedAuthData.flags.bs,
     origin |-> decodedClientData.origin,
     rpID |-> rpID]

\* lines 248-257 (authenticatorExtensionResults is not modelled)
AuthenticationInfo(credential, parsedAuthData, decodedClientData, rpID) ==
    [credentialID |-> credential.id,
     newCounter |-> parsedAuthData.counter,
     userVerified |-> parsedAuthData.flags.uv,
     credentialDeviceType |-> ParseBackupFlags(parsedAuthData.flags).credentialDeviceType,
     credentialBackedUp |-> ParseBackupFlags(parsedAuthData.flags).credentialBackedUp,
     origin |-> decodedClientData.origin,
     rpID |-> rpID]

(***************************************************************************)
(* State                                                                   *)
(***************************************************************************)
InitSlots(S) ==
    /\ pc = [c \in S |-> "idle"]
    /\ opts = [c \in S |-> NoOpts]
    /\ clientData = [c \in S |-> NoClientData]
    /\ authData = [c \in S |-> NoAuthData]
    /\ matchedRPID = [c \in S |-> NoRPID]
    /\ log = [c \in S |-> NoLog]
    /\ outcome = [c \in S |-> NoOutcome]
    /\ cred = [c \in S |-> NoCredential]
    /\ db \in Counters
    /\ accepted = {}

\* One verification at a time.
Init == InitSlots({1})

\* Two verifications that may overlap.
InitConc == InitSlots({1, 2})

\* The call moves on to `next`, or its promise rejects with `err`.
Advance(c, step, err, next) ==
    /\ pc' = [pc EXCEPT ![c] = IF err = NoError THEN next ELSE "done"]
    /\ outcome' = [outcome EXCEPT ![c] = IF err = NoError THEN @ ELSE Rejected(err)]
    /\ log' = [log EXCEPT ![c].steps = @ \cup {step}]

(***************************************************************************)
(* The caller                                                              *)
(***************************************************************************)
\* The caller calls
\* verifyAuthenticationResponse({ response, expectedChallenge, ..., credential }).
\* options.credential is a reference: either to the record the caller keeps
\* for the credential and writes when it stores a counter (shared), or to a
\* copy loaded for this call.
InProgress(c) == pc[c] \notin {"idle", "done", "stored"}

StartCall(c, expectedChallenge, signature, shared) ==
    /\ pc[c] = "idle"
    /\ pc' = [pc EXCEPT ![c] = "shape"]
    /\ cred' = [cred EXCEPT ![c] =
                  [id |-> CredentialID, publicKey |-> CredentialPublicKey, counter |-> db,
                   shared |-> shared]]
    /\ opts' = [opts EXCEPT ![c] =
                  [NoOpts EXCEPT !.expectedChallenge = expectedChallenge,
                                 !.signature = signature]]
    /\ log' = [d \in DOMAIN log |->
                 IF d = c THEN [NoLog EXCEPT !.overlapped = \E e \in DOMAIN pc : InProgress(e),
                                             !.givenCounter = db]
                 ELSE IF InProgress(d) THEN [log[d] EXCEPT !.overlapped = TRUE]
                 ELSE log[d]]
    /\ UNCHANGED <<clientData, authData, matchedRPID, outcome, db, accepted>>

\* The promise has settled.  When the authentication verified, the caller
\* stores the returned newCounter for the credential; it then drops the call.
Accepts(c) == pc[c] = "done" /\ outcome[c].kind = "result" /\ outcome[c].verified

Complete(c) ==
    /\ pc[c] = "done"
    /\ pc' = [pc EXCEPT ![c] = "idle"]
    /\ db' = IF Accepts(c) THEN outcome[c].authenticationInfo.newCounter ELSE db
    /\ accepted' = IF Accepts(c)
                   THEN accepted \cup ({outcome[c].authenticationInfo.newCounter} \ {0})
                   ELSE accepted
    /\ opts' = [opts EXCEPT ![c] = NoOpts]
    /\ clientData' = [clientData EXCEPT ![c] = NoClientData]
    /\ authData' = [authData EXCEPT ![c] = NoAuthData]
    /\ matchedRPID' = [matchedRPID EXCEPT ![c] = NoRPID]
    /\ log' = [log EXCEPT ![c] = NoLog]
    /\ outcome' = [outcome EXCEPT ![c] = NoOutcome]
    /\ cred' = [cred EXCEPT ![c] = NoCredential]

\* The caller of overlapping verifications: it stores the counter of an
\* accepted authentication, in its store and in the record it keeps for the
\* credential, which the calls given that record see ...
Store(c) ==
    /\ pc[c] = "done"
    /\ pc' = [pc EXCEPT ![c] = "stored"]
    /\ db' = IF Accepts(c) THEN outcome[c].authenticationInfo.newCounter ELSE db
    /\ cred' = [d \in DOMAIN cred |->
                  IF Accepts(c) /\ cred[d].shared /\ pc[d] # "idle"
                  THEN [cred[d] EXCEPT !.counter = outcome[c].authenticationInfo.newCounter]
                  ELSE cred[d]]
    /\ log' = [d \in DOMAIN log |->
                 IF /\ Accepts(c) /\ cred[d].shared /\ InProgress(d)
                    /\ "counter" \notin log[d].steps
                    /\ cred[d].counter # outcome[c].authenticationInfo.newCounter
                 THEN [log[d] EXCEPT !.callerStored = TRUE]
                 ELSE log[d]]
    /\ UNCHANGED <<opts, clientData, authData, matchedRPID, outcome, accepted>>

\* ... and then drops the call.
Release(c) ==
    /\ pc[c] = "stored"
    /\ pc' = [pc EXCEPT ![c] = "idle"]
    /\ opts' = [opts EXCEPT ![c] = NoOpts]
    /\ clientData' = [clientData EXCEPT ![c] = NoClientData]
    /\ authData' = [authData EXCEPT ![c] = NoAuthData]
    /\ matchedRPID' = [matchedRPID EXCEPT ![c] = NoRPID]
    /\ log' = [log EXCEPT ![c] = NoLog]
    /\ outcome' = [outcome EXCEPT ![c] = NoOutcome]
    /\ cred' = [cred EXCEPT ![c] = NoCredential]
    /\ UNCHANGED <<db, accepted>>

(***************************************************************************)
(* verifyAuthenticationResponse, step by step                              *)
(***************************************************************************)
\* lines 61-86
CheckResponseShape(c, id, rawId, credentialType, clientDataJSONIsString) ==
    /\ pc[c] = "shape"
    /\ opts' = [opts EXCEPT ![c].id = id, ![c].rawId = rawId,
                            ![c].credentialType = credentialType,
                            ![c].clientDataJSONIsString = clientDataJSONIsString]
    /\ Advance(c, "shape", ShapeError(id, rawId, credentialType, clientDataJSONIsString),
               "decode")
    /\ UNCHANGED <<clientData, authData, matchedRPID, cred, db, accepted>>

\* lines 88-90: decodeClientDataJSON throws on a malformed blob
DecodeClientData(c, decoded) ==
    /\ pc[c] = "decode"
    /\ clientData' = [clientData EXCEPT ![c] = decoded]
    /\ Advance(c, "decode", IF decoded.ok THEN NoError ELSE "Malformed clientDataJSON", "type")
    /\ UNCHANGED <<opts, authData, matchedRPID, cred, db, accepted>>

\* lines 92-108
CheckType(c, expectedType) ==
    /\ pc[c] = "type"
    /\ opts' = [opts EXCEPT ![c].expectedType = expectedType]
    /\ Advance(c, "type", TypeError(clientData[c].type, expectedType), "challenge")
    /\ UNCHANGED <<clientData, authData, matchedRPID, cred, db, accepted>>

\* A challenge check that invokes the predicate without awaiting it.
CheckChallenge_NoAwait(c) ==
    /\ pc[c] = "challenge"
    /\ IF opts[c].expectedChallenge.kind = "function"
       THEN /\ pc' = [pc EXCEPT ![c] = "origin"]
            /\ log' = [log EXCEPT ![c].predicateCalls = Append(@, clientData[c].challenge),
                                  ![c].steps = @ \cup {"challenge"}]
            /\ UNCHANGED outcome
       ELSE Advance(c, "challenge",
                    LiteralChallengeError(clientData[c].challenge, opts[c].expectedChallenge),
                    "origin")
    /\ UNCHANGED <<opts, clientData, authData, matchedRPID, cred, db, accepted>>

\* lines 110-121: a function is invoked with the challenge and awaited;
\* a string is compared
CheckChallenge(c) ==
    /\ pc[c] = "challenge"
    /\ IF opts[c].expectedChallenge.kind = "function"
       THEN /\ pc' = [pc EXCEPT ![c] = "awaitChallenge"]
            /\ log' = [log EXCEPT ![c].predicateCalls = Append(@, clientData[c].challenge),
                                  ![c].steps = @ \cup {"challenge"}]
            /\ UNCHANGED outcome
       ELSE Advance(c, "challenge",
                    LiteralChallengeError(clientData[c].challenge, opts[c].expectedChallenge),
                    "origin")
    /\ UNCHANGED <<opts, clientData, authData, matchedRPID, cred, db, accepted>>

\* lines 112-116: the predicate's promise settles with `result`
ResolveChallenge(c, result) ==
    /\ pc[c] = "awaitChallenge"
    /\ pc' = [pc EXCEPT ![c] = IF PredicateChallengeError(result) = NoError
                               THEN "origin" ELSE "done"]
    /\ outcome' = [outcome EXCEPT ![c] = IF PredicateChallengeError(result) = NoError
                                         THEN @ ELSE Rejected(PredicateChallengeError(result))]
    /\ log' = [log EXCEPT ![c].predicateResult = result]
    /\ UNCHANGED <<opts, clientData, authData, matchedRPID, cred, db, accepted>>

\* lines 123-137
CheckOrigin(c, expectedOrigin) ==
    /\ pc[c] = "origin"
    /\ opts' = [opts EXCEPT ![c].expectedOrigin = expectedOrigin]
    /\ Advance(c, "origin", OriginError(clientData[c].origin, expectedOrigin), "encoding")
    /\ UNCHANGED <<clientData, authData, matchedRPID, cred, db, accepted>>

\* lines 139-166
CheckEncodings(c, authenticatorDataIsBase64URL, signatureIsBase64URL, userHandle) ==
    /\ pc[c] = "encoding"
    /\ opts' = [opts EXCEPT ![c].authenticatorDataIsBase64URL = authenticatorDataIsBase64URL,
                            ![c].signatureIsBase64URL = signatureIsBase64URL,
                            ![c].userHandle = userHandle]
    /\ Advance(c, "encoding",
               EncodingError(authenticatorDataIsBase64URL, signatureIsBase64URL, userHandle,
                             clientData[c].tokenBinding),
               "parse")
    /\ UNCHANGED <<clientData, authData, matchedRPID, cred, db, accepted>>

\* lines 168-172: parseAuthenticatorData throws on malformed bytes
ParseAuthData(c, parsed) ==
    /\ pc[c] = "parse"
    /\ authData' = [authData EXCEPT ![c] = parsed]
    /\ Advance(c, "parse", IF parsed.ok THEN NoError ELSE "Malformed authenticatorData", "rpid")
    /\ UNCHANGED <<opts, clientData, matchedRPID, cred, db, accepted>>

\* lines 174-182: matchExpectedRPID throws when no expected RP ID matches
MatchRPID(c, expectedRPID) ==
    /\ pc[c] = "rpid"
    /\ opts' = [opts EXCEPT ![c].expectedRPID = expectedRPID]
    /\ matchedRPID' = [matchedRPID EXCEPT ![c] =
                         MatchExpectedRPID(authData[c].rpIdHash, ExpectedRPIDList(expectedRPID))]
    /\ Advance(c, "rpid",
               IF MatchExpectedRPID(authData[c].rpIdHash, ExpectedRPIDList(expectedRPID)) = NoRPID
               THEN "Unexpected RP ID hash" ELSE NoError,
               "flags")
    /\ UNCHANGED <<clientData, authData, cred, db, accepted>>

\* lines 184-225
CheckFlags(c, requireUserVerification, advancedFIDOConfig) ==
    /\ pc[c] = "flags"
    /\ opts' = [opts EXCEPT ![c].requireUserVerification = requireUserVerification,
                            ![c].advancedFIDOConfig = advancedFIDOConfig]
    /\ Advance(c, "flags",
               FlagError(authData[c].flags, requireUserVerification, advancedFIDOConfig),
               "counter")
    /\ UNCHANGED <<clientData, authData, matchedRPID, cred, db, accepted>>

\* lines 227-247: the counter check, then verifySignature is invoked
CheckCounter(c) ==
    /\ pc[c] = "counter"
    /\ pc' = [pc EXCEPT ![c] = IF CounterError(authData[c].counter, cred[c].counter) = NoError
                               THEN "awaitSignature" ELSE "done"]
    /\ outcome' = [outcome EXCEPT ![c] =
                     IF CounterError(authData[c].counter, cred[c].counter) = NoError
                     THEN @
                     ELSE Rejected(CounterError(authData[c].counter, cred[c].counter))]
    /\ log' = [log EXCEPT ![c].steps = @ \cup {"counter"},
                          ![c].verifySignatureCalls =
                              IF CounterError(authData[c].counter, cred[c].counter) = NoError
                              THEN @ + 1 ELSE @]
    /\ UNCHANGED <<opts, clientData, authData, matchedRPID, cred, db, accepted>>

\* A return that writes the new counter into the caller's credential.
ReturnResult_UpdatesCredential(c) ==
    /\ pc[c] = "awaitSignature"
    /\ pc' = [pc EXCEPT ![c] = "done"]
    /\ outcome' = [outcome EXCEPT ![c] =
                     IF VerifySignature(opts[c].signature) = "throw"
                     THEN Rejected("Invalid signature encoding")
                     ELSE Fulfilled(VerifySignature(opts[c].signature) = "true",
                                    AuthenticationInfo(cred[c], authData[c], clientData[c],
                                                       matchedRPID[c]))]
    /\ log' = [log EXCEPT ![c].steps = @ \cup {"signature"}]
    /\ cred' = [cred EXCEPT ![c].counter = authData[c].counter]
    /\ UNCHANGED <<opts, clientData, authData, matchedRPID, db, accepted>>

\* lines 242-260: the awaited verifySignature settles; when it rejects the
\* call rejects with its error, otherwise the result record is returned
ReturnResult(c) ==
    /\ pc[c] = "awaitSignature"
    /\ pc' = [pc EXCEPT ![c] = "done"]
    /\ outcome' = [outcome EXCEPT ![c] =
                     IF VerifySignature(opts[c].signature) = "throw"
                     THEN Rejected("Invalid signature encoding")
                     ELSE Fulfilled(VerifySignature(opts[c].signature) = "true",
                                    AuthenticationInfo(cred[c], authData[c], clientData[c],
                                                       matchedRPID[c]))]
    /\ log' = [log EXCEPT ![c].steps = @ \cup {"signature"}]
    /\ UNCHANGED <<opts, clientData, authData, matchedRPID, cred, db, accepted>>

(***************************************************************************)
(* Inputs                                                                  *)
(***************************************************************************)
ClientDatas ==
    [ok : {TRUE}, type : Types, challenge : Challenges, origin : Origins,
     tokenBinding : TokenBindings]
    \cup {NoClientData}

AuthDatas ==
    [ok : {TRUE}, rpIdHash : {Hash(r) : r \in RPIDs}, flags : AuthenticatorFlags,
     counter : Counters]
    \cup {NoAuthData}

\* One verification at a time, of any request at all.
Next ==
    \/ \E c \in {1}, ec \in ExpectedChallenges, sig \in Signatures :
           StartCall(c, ec, sig, TRUE)
    \/ \E c \in {1}, id \in Ids, rawId \in RawIds, ct \in CredentialTypes, cdj \in BOOLEAN :
           CheckResponseShape(c, id, rawId, ct, cdj)
    \/ \E c \in {1}, cd \in ClientDatas : DecodeClientData(c, cd)
    \/ \E c \in {1}, et \in ExpectedTypes : CheckType(c, et)
    \/ \E c \in {1} : CheckChallenge(c)
    \/ \E c \in {1}, r \in {"true", "false", "reject"} : ResolveChallenge(c, r)
    \/ \E c \in {1}, eo \in ExpectedOrigins : CheckOrigin(c, eo)
    \/ \E c \in {1}, ad \in BOOLEAN, sig \in BOOLEAN, uh \in UserHandles :
           CheckEncodings(c, ad, sig, uh)
    \/ \E c \in {1}, parsed \in AuthDatas : ParseAuthData(c, parsed)
    \/ \E c \in {1}, er \in ExpectedRPIDs : MatchRPID(c, er)
    \/ \E c \in {1}, ruv \in RequireUserVerifications, adv \in AdvancedFIDOConfigs :
           CheckFlags(c, ruv, adv)
    \/ \E c \in {1} : CheckCounter(c)
    \/ \E c \in {1} : ReturnResult(c)
    \/ \E c \in {1} : Complete(c)

Spec == Init /\ [][Next]_vars

(***************************************************************************)
(* Two verifications for the same credential that may overlap.  The        *)
(* requests are well formed up to the signature; they differ in the        *)
(* authenticator's counter, in the signature and in how the challenge is   *)
(* checked.  The caller stores a counter as soon as a call has settled,     *)
(* whatever the other call is doing.                                       *)
(***************************************************************************)
GoodClientData ==
    [ok |-> TRUE, type |-> "webauthn.get", challenge |-> "c1", origin |-> "https://example.com",
     tokenBinding |-> [kind |-> "undefined", status |-> ""]]

GoodAuthDatas ==
    [ok : {TRUE}, rpIdHash : {Hash("example.com")},
     flags : {[up |-> TRUE, uv |-> TRUE, be |-> FALSE, bs |-> FALSE]}, counter : Counters]

NextConc ==
    \/ \E c \in {1, 2}, sig \in Signatures, shared \in BOOLEAN :
           StartCall(c, ChallengeFn, sig, shared)
    \/ \E c \in {1, 2} : CheckResponseShape(c, "a", "a", "public-key", TRUE)
    \/ \E c \in {1, 2} : DecodeClientData(c, GoodClientData)
    \/ \E c \in {1, 2} : CheckType(c, Undefined)
    \/ \E c \in {1, 2} : CheckChallenge(c)
    \/ \E c \in {1, 2}, r \in {"true", "false"} : ResolveChallenge(c, r)
    \/ \E c \in {1, 2} : CheckOrigin(c, Str("https://example.com"))
    \/ \E c \in {1, 2} : CheckEncodings(c, TRUE, TRUE, "string")
    \/ \E c \in {1, 2}, parsed \in GoodAuthDatas : ParseAuthData(c, parsed)
    \/ \E c \in {1, 2} : MatchRPID(c, Str("example.com"))
    \/ \E c \in {1, 2} : CheckFlags(c, "undefined", [defined |-> FALSE, userVerification |-> "undefined"])
    \/ \E c \in {1, 2} : CheckCounter(c)
    \/ \E c \in {1, 2} : ReturnResult(c)
    \/ \E c \in {1, 2} : Store(c)
    \/ \E c \in {1, 2} : Release(c)

SpecConc == InitConc /\ [][NextConc]_vars

(***************************************************************************)
(* Properties                                                              *)
(***************************************************************************)
Calls == DOMAIN pc
Done(c) == pc[c] = "done"
Did(c, step) == step \in log[c].steps
Threw(c, errors) == Done(c) /\ outcome[c].kind = "error" /\ outcome[c].error \in errors
Returned(c) == Done(c) /\ outcome[c].kind = "result"

\* C1: on a call that passes every other check, the counter check throws
\* exactly when (observed > 0 or stored > 0) and observed <= stored, and the
\* call (its signature material being well formed) returns a result exactly
\* when observed > stored or both are 0.
C1_CounterPolicy ==
    \A c \in Calls :
        Done(c) /\ Did(c, "counter") =>
            LET observed == authData[c].counter
                stored == cred[c].counter
            IN  /\ Threw(c, CounterErrors) <=>
                     ((observed > 0 \/ stored > 0) /\ observed <= stored)
                /\ opts[c].signature # "malformed" =>
                       (Returned(c) <=> (observed > stored \/ (observed = 0 /\ stored = 0)))

\* A stalled nonzero counter was rejected.
C1_Witness ==
    \E c \in Calls :
        /\ Threw(c, CounterErrors)
        /\ authData[c].counter = cred[c].counter
        /\ cred[c].counter > 0

\* What the call has read so far violates one of the checks C2 lists.
IdViolation(c) ==
    Did(c, "shape") /\ (opts[c].id = "" \/ opts[c].id # opts[c].rawId
                        \/ opts[c].credentialType # "public-key")

TypeViolation(c) ==
    /\ Did(c, "type")
    /\ \/ opts[c].expectedType.kind = "array"
          /\ \A i \in DOMAIN opts[c].expectedType.arr :
                 opts[c].expectedType.arr[i] # clientData[c].type
       \/ opts[c].expectedType.kind = "string" /\ opts[c].expectedType.str # ""
          /\ clientData[c].type # opts[c].expectedType.str
       \/ opts[c].expectedType.kind = "undefined" /\ clientData[c].type # "webauthn.get"

ChallengeViolation(c) ==
    /\ Did(c, "challenge")
    /\ \/ opts[c].expectedChallenge.kind = "string"
          /\ clientData[c].challenge # opts[c].expectedChallenge.str
       \/ opts[c].expectedChallenge.kind = "function" /\ log[c].predicateResult = "false"

OriginViolation(c) ==
    /\ Did(c, "origin")
    /\ \/ opts[c].expectedOrigin.kind = "string"
          /\ clientData[c].origin # opts[c].expectedOrigin.str
       \/ opts[c].expectedOrigin.kind = "array"
          /\ \A i \in DOMAIN opts[c].expectedOrigin.arr :
                 opts[c].expectedOrigin.arr[i] # clientData[c].origin

RPIDViolation(c) ==
    /\ Did(c, "rpid")
    /\ \/ opts[c].expectedRPID.kind = "string"
          /\ authData[c].rpIdHash # Hash(opts[c].expectedRPID.str)
       \/ opts[c].expectedRPID.kind = "array"
          /\ \A i \in DOMAIN opts[c].expectedRPID.arr :
                 authData[c].rpIdHash # Hash(opts[c].expectedRPID.arr[i])

\* The flag policy's two modes: standard when no advancedFIDOConfig is given,
\* advanced-conformance when it names a requirement.
StandardMode(c) == Did(c, "flags") /\ ~opts[c].advancedFIDOConfig.defined

AdvancedMode(c) ==
    /\ Did(c, "flags")
    /\ opts[c].advancedFIDOConfig.defined
    /\ opts[c].advancedFIDOConfig.userVerification \in {"required", "preferred", "discouraged"}

\* The flag policy: the standard rules apply unless a user-verification
\* requirement is supplied (advancedFIDOConfig absent, or present without
\* userVerification); with a requirement, uv is needed only for "required".
FlagViolation(c) ==
    /\ Did(c, "flags")
    /\ \/ /\ opts[c].advancedFIDOConfig.userVerification = "undefined"
          /\ (~authData[c].flags.up
              \/ (opts[c].requireUserVerification # "false" /\ ~authData[c].flags.uv))
       \/ /\ opts[c].advancedFIDOConfig.userVerification = "required"
          /\ ~authData[c].flags.uv

CounterViolation(c) ==
    /\ Did(c, "counter")
    /\ (authData[c].counter > 0 \/ cred[c].counter > 0)
    /\ authData[c].counter <= cred[c].counter

Violation(c) ==
    \/ IdViolation(c) \/ TypeViolation(c) \/ ChallengeViolation(c) \/ OriginViolation(c)
    \/ RPIDViolation(c) \/ FlagViolation(c) \/ CounterViolation(c)

\* C2, as stated: a result with verified = false comes from a signature that does not
\* verify and from nothing else; a signature that does not verify never makes
\* the call throw (only structurally invalid signature material does); a
\* call with a structural or policy violation throws and returns no result,
\* whether or not its signature verifies.
C2_OutcomeClassification ==
    \A c \in Calls :
        /\ Returned(c) =>
               /\ outcome[c].verified = (opts[c].signature = "valid")
               /\ opts[c].signature # "malformed"
               /\ ~Violation(c)
        /\ Done(c) /\ Did(c, "signature") /\ opts[c].signature = "invalid" =>
               Returned(c) /\ ~outcome[c].verified
        /\ Done(c) /\ Did(c, "signature") /\ opts[c].signature = "malformed" =>
               Threw(c, SignatureErrors)
        /\ Done(c) /\ Violation(c) => outcome[c].kind = "error"
        /\ Done(c) /\ outcome[c].kind = "error" => outcome[c].authenticationInfo = NoInfo

\* The flag check threw.
RejectedOnFlags(c) == Did(c, "flags") /\ ~Did(c, "counter") /\ Threw(c, FlagErrors)

\* C3: in standard mode the flag check throws exactly when up is false or
\* (requireUserVerification, default true, and uv is false); in
\* advanced-conformance mode it throws exactly when the requirement is
\* "required" and uv is false, so never for "preferred" or "discouraged".
C3_FlagPolicyModes ==
    \A c \in Calls :
        /\ StandardMode(c) =>
               (RejectedOnFlags(c) <=>
                    (~authData[c].flags.up
                     \/ (opts[c].requireUserVerification # "false" /\ ~authData[c].flags.uv)))
        /\ AdvancedMode(c) =>
               (RejectedOnFlags(c) <=>
                    (opts[c].advancedFIDOConfig.userVerification = "required"
                     /\ ~authData[c].flags.uv))

\* A response with up = false and uv = false passed under "discouraged"
\* although requireUserVerification was left at its default.
C3_Witness ==
    \E c \in Calls :
        /\ AdvancedMode(c)
        /\ opts[c].advancedFIDOConfig.userVerification = "discouraged"
        /\ opts[c].requireUserVerification = "undefined"
        /\ ~authData[c].flags.up /\ ~authData[c].flags.uv
        /\ Returned(c)

\* C4: when no user-verification requirement is supplied (advancedFIDOConfig
\* absent, or present with userVerification undefined) the standard rules
\* apply: up = false is rejected, and uv = false is rejected when
\* requireUserVerification is true.
C4_StandardWithoutRequirement ==
    \A c \in Calls :
        /\ Did(c, "flags")
        /\ opts[c].advancedFIDOConfig.userVerification = "undefined"
        /\ (~authData[c].flags.up
            \/ (opts[c].requireUserVerification # "false" /\ ~authData[c].flags.uv))
        => RejectedOnFlags(c)

PredicateGiven(c) == opts[c].expectedChallenge.kind = "function"

AfterChallenge(c) ==
    \/ pc[c] \in {"origin", "encoding", "parse", "rpid", "flags", "counter", "awaitSignature"}
    \/ log[c].steps \cap {"origin", "encoding", "parse", "rpid", "flags", "counter", "signature"} # {}
    \/ log[c].verifySignatureCalls > 0
    \/ Returned(c)

\* C5 as stated: every call given a predicate invokes it exactly once with
\* the observed challenge.
C5_InvokedOnEveryCall ==
    \A c \in Calls :
        PredicateGiven(c) /\ Done(c) => log[c].predicateCalls = <<clientData[c].challenge>>

\* C5, amended: a call given a predicate invokes it exactly once, with the
\* observed challenge, once it has passed the checks before the challenge
\* check, and not at all when one of those checks throws; no later step
\* happens before the invocation has resolved to true, and the call does not
\* complete while the invocation is unresolved.
C5_PredicateAwaitedOnce ==
    \A c \in Calls :
        PredicateGiven(c) =>
            /\ IF pc[c] \in {"idle", "shape", "decode", "type", "challenge"}
                  \/ Threw(c, EarlyErrors)
               THEN log[c].predicateCalls = <<>>
               ELSE log[c].predicateCalls = <<clientData[c].challenge>>
            /\ AfterChallenge(c) => log[c].predicateResult = "true"
            /\ Done(c) /\ log[c].predicateCalls # <<>> => log[c].predicateResult # "none"

\* A call given a predicate ran to its result after one awaited invocation.
C5_Witness ==
    \E c \in Calls :
        /\ PredicateGiven(c)
        /\ Returned(c)
        /\ log[c].predicateCalls = <<clientData[c].challenge>>
        /\ log[c].predicateResult = "true"

\* C6: a call whose challenge check fails (the challenge differs from the
\* literal, or the predicate returns false) throws the challenge-mismatch
\* error, a call whose origin check fails throws the origin-mismatch error,
\* and in both verifySignature has not been invoked.
C6_NoSignatureAfterMismatch ==
    \A c \in Calls :
        /\ ChallengeViolation(c) =>
               Threw(c, ChallengeErrors) /\ log[c].verifySignatureCalls = 0
        /\ OriginViolation(c) =>
               Threw(c, OriginErrors) /\ log[c].verifySignatureCalls = 0

\* The predicate returned false and the call threw before any signature check.
C6_Witness ==
    \E c \in Calls :
        /\ PredicateGiven(c)
        /\ log[c].predicateResult = "false"
        /\ Threw(c, ChallengeErrors)
        /\ log[c].verifySignatureCalls = 0

\* The caller stores the counter of an accepted authentication.
Stores(c) == Accepts(c) /\ pc'[c] = "idle"

\* C7: when the caller stores newCounter after each accepted authentication
\* before it starts the next verification, the stored counter never
\* decreases, it strictly increases with every accepted authentication whose
\* counter is nonzero, and no nonzero counter is accepted twice.
C7_CallerMonotonicity ==
    [][/\ db' >= db
       /\ \A c \in Calls :
              Stores(c) /\ outcome[c].authenticationInfo.newCounter > 0 =>
                  /\ db' > db
                  /\ outcome[c].authenticationInfo.newCounter \notin accepted]_vars

\* Two authentications with nonzero counters have been accepted and stored.
C7_Witness == Cardinality(accepted) >= 2 /\ db = MaxCounter

Settled(c) == pc[c] \in {"done", "stored"}
SettledWithResult(c) == Settled(c) /\ outcome[c].kind = "result"

\* The counter of call c's response is valid for the stored counter the call
\* was given.
ValidForGivenCounter(c) ==
    \/ authData[c].counter > log[c].givenCounter
    \/ authData[c].counter = 0 /\ log[c].givenCounter = 0

\* Two calls that ran at the same time, were given the same stored counter
\* and the same response, valid for that counter and well formed (the checks
\* of both reached verifySignature's counter check).
SameOverlappingCalls(c1, c2) ==
    /\ c1 # c2
    /\ Settled(c1) /\ Settled(c2)
    /\ log[c1].overlapped /\ log[c2].overlapped
    /\ log[c1].givenCounter = log[c2].givenCounter
    /\ authData[c1] = authData[c2]
    /\ opts[c1] = opts[c2]
    /\ opts[c1].signature # "malformed"
    /\ Did(c1, "counter") /\ Did(c2, "counter")
    /\ ValidForGivenCounter(c1)

\* C8 as stated: two overlapping calls given the same stored counter and the
\* same valid response both complete with a result.
C8_BothReturn ==
    \A c1, c2 \in Calls :
        SameOverlappingCalls(c1, c2) => SettledWithResult(c1) /\ SettledWithResult(c2)

\* C8, amended: no step of a verification changes the credential it was
\* given or the stored counter, and two overlapping calls given the same
\* stored counter and the same valid response both complete with a result,
\* neither rejected for counter regression, provided the caller has not
\* changed the counter of the credential object a call refers to before that
\* call's counter check.
C8_NoSerialization ==
    /\ [][\A c \in Calls :
              InProgress(c) /\ pc'[c] # pc[c] => cred' = cred /\ db' = db]_vars
    /\ [](\A c \in Calls :
              /\ Settled(c) /\ Did(c, "counter")
              /\ ~log[c].callerStored
              /\ ValidForGivenCounter(c)
              => /\ ~(outcome[c].kind = "error" /\ outcome[c].error \in CounterErrors)
                 /\ opts[c].signature # "malformed" => SettledWithResult(c))
    /\ [](\A c1, c2 \in Calls :
              /\ SameOverlappingCalls(c1, c2)
              /\ ~log[c1].callerStored /\ ~log[c2].callerStored
              => SettledWithResult(c1) /\ SettledWithResult(c2))

\* Two overlapping calls given the same stored counter both verified the same
\* response, which carries a nonzero counter, and the caller has stored the
\* counter of one of them.
C8_Witness ==
    \E c1, c2 \in Calls :
        /\ SameOverlappingCalls(c1, c2)
        /\ pc[c1] = "stored"
        /\ SettledWithResult(c1) /\ SettledWithResult(c2)
        /\ outcome[c1].verified /\ outcome[c2].verified
        /\ authData[c1].counter > 0
        /\ db = authData[c1].counter

PassedTypeCheck(c) == Did(c, "type") /\ ~Threw(c, TypeErrors)

\* C9 as stated: the type check passes iff type is "webauthn.get" when no
\* expected type is supplied, equals the supplied single type, or is in the
\* supplied set.
C9_TypeCheckAsStated ==
    \A c \in Calls :
        Did(c, "type") =>
            (PassedTypeCheck(c) <=>
                 \/ opts[c].expectedType.kind = "undefined" /\ clientData[c].type = "webauthn.get"
                 \/ opts[c].expectedType.kind = "string"
                    /\ clientData[c].type = opts[c].expectedType.str
                 \/ opts[c].expectedType.kind = "array"
                    /\ \E i \in DOMAIN opts[c].expectedType.arr :
                           opts[c].expectedType.arr[i] = clientData[c].type)

\* C9, amended: as stated, with an empty-string expectedType counting as no
\* expected type supplied; a call that fails the type check throws before
\* the challenge check is reached.
C9_TypeCheck ==
    \A c \in Calls :
        Did(c, "type") =>
            /\ PassedTypeCheck(c) <=>
                 \/ /\ \/ opts[c].expectedType.kind = "undefined"
                       \/ opts[c].expectedType.kind = "string" /\ opts[c].expectedType.str = ""
                    /\ clientData[c].type = "webauthn.get"
                 \/ opts[c].expectedType.kind = "string" /\ opts[c].expectedType.str # ""
                    /\ clientData[c].type = opts[c].expectedType.str
                 \/ opts[c].expectedType.kind = "array"
                    /\ \E i \in DOMAIN opts[c].expectedType.arr :
                           opts[c].expectedType.arr[i] = clientData[c].type
            /\ ~PassedTypeCheck(c) =>
                   /\ Threw(c, TypeErrors)
                   /\ ~Did(c, "challenge")
                   /\ log[c].predicateCalls = <<>>

\* "webauthn.get" was rejected for not being a member of the expected set,
\* before the challenge check.
C9_Witness ==
    \E c \in Calls :
        /\ Done(c)
        /\ Did(c, "type") /\ ~PassedTypeCheck(c)
        /\ opts[c].expectedType.kind = "array"
        /\ clientData[c].type = "webauthn.get"
        /\ \A i \in DOMAIN opts[c].expectedType.arr :
               opts[c].expectedType.arr[i] # clientData[c].type
        /\ ~Did(c, "challenge")

\* C10: every returned result, verified or not, carries the counter parsed
\* from the authenticator data, the caller's credential id, the client
\* data's origin and the uv flag, and its newCounter is greater than the
\* credential's counter unless both are 0.
C10_ResultRecord ==
    \A c \in Calls :
        Returned(c) =>
            LET info == outcome[c].authenticationInfo
            IN  /\ info.newCounter = authData[c].counter
                /\ info.credentialID = cred[c].id
                /\ info.origin = clientData[c].origin
                /\ info.userVerified = authData[c].flags.uv
                /\ \/ info.newCounter > cred[c].counter
                   \/ info.newCounter = 0 /\ cred[c].counter = 0

\* A result with verified = false carries a counter above a nonzero stored one.
C10_Witness ==
    \E c \in Calls :
        /\ Returned(c)
        /\ ~outcome[c].verified
        /\ cred[c].counter > 0
        /\ outcome[c].authenticationInfo.newCounter > cred[c].counter

====
